---- MODULE Spec2Model ----
(***************************************************************************)
(* A model of ffpkg_create.py: the script that appends an FFPKG trailer    *)
(* (auxiliary files + 20-byte footer) to an image file and renames it.     *)
(*                                                                         *)
(* Strings are sequences of code points, bytes are naturals in 0..255.     *)
(* The file system is a map from path keys (sequences of path components)  *)
(* to file records.                                                        *)
(***************************************************************************)
EXTENDS Integers, Sequences, FiniteSets

\* ------------------------------------------------------------------ bounds
\* at most this many files exist under the auxiliary directory
MaxFiles == 2
\* a file's content is empty or MaxContentLen bytes long
MaxContentLen == 2

\* ------------------------------------------------------- program constants
VERSION == 1
ArgCount == 5
TitleIdLen == 9
SLASH == 47
BACKSLASH == 92
AsciiMax == 127
NUL == 0

\* "ffpkg"
MAGIC == <<102, 102, 112, 107, 103>>

\* ------------------------------------------------------------ input strings
\* "PPSA10240"
S_PPSA10240 == <<80, 80, 83, 65, 49, 48, 50, 52, 48>>
\* "PPSA1024" (8 characters)
S_PPSA1024 == <<80, 80, 83, 65, 49, 48, 50, 52>>
\* "PPSA102400" (10 characters)
S_PPSA102400 == <<80, 80, 83, 65, 49, 48, 50, 52, 48, 48>>
\* "PPSA1024" followed by U+00E9 (9 characters, not ASCII)
S_PPSA1024e == <<80, 80, 83, 65, 49, 48, 50, 52, 233>>
\* "ffpkg_create.py"
S_script == <<102, 102, 112, 107, 103, 95, 99, 114, 101, 97, 116, 101, 46, 112, 121>>
\* "sce_sys"
S_sce_sys == <<115, 99, 101, 95, 115, 121, 115>>
\* "a.txt"
S_a_txt == <<97, 46, 116, 120, 116>>
\* U+00E9 (a one-character, non-ASCII file name)
S_eacute == <<233>>
\* "_d" (a subdirectory; "_" sorts before the lower-case letters)
S_sub == <<95, 100>>
\* "b"
S_b == <<98>>
\* "c"
S_c == <<99>>
\* "snake.img"
S_snake_img == <<115, 110, 97, 107, 101, 46, 105, 109, 103>>
\* "snake.ffpkg"
S_snake_ffpkg == <<115, 110, 97, 107, 101, 46, 102, 102, 112, 107, 103>>
\* "sce_sys/a.txt"
S_sce_sys_a_txt == <<115, 99, 101, 95, 115, 121, 115, 47, 97, 46, 116, 120, 116>>
\* "nodir/out.ffpkg"
S_nodir_out == <<110, 111, 100, 105, 114, 47, 111, 117, 116, 46, 102, 102, 112, 107, 103>>

\* --------------------------------------------------------------- file system
K_a == <<S_sce_sys, S_a_txt>>
K_b == <<S_sce_sys, S_b>>
K_e == <<S_sce_sys, S_eacute>>
K_c == <<S_sce_sys, S_sub, S_c>>
K_img == <<S_snake_img>>
K_out == <<S_snake_ffpkg>>

\* files that may exist under the auxiliary directory
AuxKeys == {K_a, K_b, K_e, K_c}
\* every path at which a file may exist
AllKeys == AuxKeys \cup {K_img, K_out}
\* the directories that exist (the working directory is <<>>)
Dirs == {<<>>, <<S_sce_sys>>, <<S_sce_sys, S_sub>>}

Absent == [exists |-> FALSE, data |-> <<>>, readable |-> FALSE, writable |-> FALSE]
File(d, r, w) == [exists |-> TRUE, data |-> d, readable |-> r, writable |-> w]

\* the i-th byte of a file's content: "hi", then arbitrary bytes
ContentByte(i) == IF i = 1 THEN 104 ELSE IF i = 2 THEN 105 ELSE (i * 37) % 256
Content(n) == [i \in 1..n |-> ContentByte(i)]
Contents == {Content(0), Content(MaxContentLen)}
\* the bytes of the image
IMG == <<0, 255, 102>>
\* the bytes of a file already at the output path
OLD == <<9>>

VARIABLES
    platform,       \* "posix" or "nt": os.sep and os.rename differ
    argv,           \* sys.argv
    fs,             \* the file system now
    fs0,            \* the file system when the script started
    pc,             \* the statement the script is at
    err,            \* the exception that ended the run, "" if none
    TITLE_ID, SCE_SYS_PATH, INPUT_FILE, OUTPUT_FILE,
    walked,         \* the files os.walk has yielded so far
    sce_sys_files,  \* list of collected paths
    file_count,
    idx,            \* position of the encode loop in sce_sys_files
    sce_entries,    \* bytes of the entries encoded so far
    trailer,        \* the assembled trailer, <<>> before line 63
    ioLog           \* the file-system calls made so far, in order

vars == <<platform, argv, fs, fs0, pc, err, TITLE_ID, SCE_SYS_PATH, INPUT_FILE,
          OUTPUT_FILE, walked, sce_sys_files, file_count, idx, sce_entries,
          trailer, ioLog>>

\* ------------------------------------------------------------------ helpers
RECURSIVE Pow(_, _)
Pow(b, n) == IF n = 0 THEN 1 ELSE b * Pow(b, n - 1)

\* struct.pack("<H" / "<I" / "<Q", n): n as w little-endian bytes
RECURSIVE LE(_, _)
LE(n, w) == IF w = 0 THEN <<>> ELSE <<n % 256>> \o LE(n \div 256, w - 1)
\* struct.pack raises struct.error when n does not fit w bytes (a length the
\* model can hold is below 2^31, so it always fits 4 or 8 bytes)
Fits(n, w) == n >= 0 /\ (w >= 4 \/ n < Pow(256, w))

\* str.encode("ascii"): every code point up to 127 is one byte of that value,
\* anything else raises UnicodeEncodeError
\* (variant: an encoder that lets every code point through)
IsAscii_lenient(s) == TRUE
IsAscii(s) == \A i \in 1..Len(s) : s[i] <= AsciiMax
AsciiEncode(s) == [i \in 1..Len(s) |-> s[i]]

\* os.sep
Sep(plat) == IF plat = "nt" THEN BACKSLASH ELSE SLASH
\* a path separator to the OS: "/" everywhere, "\" on Windows too
IsSep(c, plat) == c = SLASH \/ (plat = "nt" /\ c = BACKSLASH)

\* the OS resolving a path string to the components it names
RECURSIVE SplitFrom(_, _, _, _)
SplitFrom(s, i, cur, plat) ==
    IF i > Len(s)
    THEN IF cur = <<>> THEN <<>> ELSE <<cur>>
    ELSE IF IsSep(s[i], plat)
         THEN (IF cur = <<>> THEN <<>> ELSE <<cur>>) \o SplitFrom(s, i + 1, <<>>, plat)
         ELSE SplitFrom(s, i + 1, Append(cur, s[i]), plat)
Split(s, plat) == SplitFrom(s, 1, <<>>, plat)

\* os.path.join(root, name) for a relative name
Join(root, name, plat) ==
    IF root = <<>> \/ IsSep(root[Len(root)], plat)
    THEN root \o name
    ELSE root \o <<Sep(plat)>> \o name

\* filepath.replace("\\", "/")
\* (variant: separators left as os.path.join wrote them)
Replace_none(s) == s
Replace(s) == [i \in 1..Len(s) |-> IF s[i] = BACKSLASH THEN SLASH ELSE s[i]]

\* the file at key k, Absent when there is none
Lookup(f, k) == IF k \in DOMAIN f THEN f[k] ELSE Absent
ParentDir(k) == SubSeq(k, 1, Len(k) - 1)
IsPrefix(p, k) == Len(p) <= Len(k) /\ SubSeq(k, 1, Len(p)) = p

\* str < str in Python: lexicographic by code point
RECURSIVE StrLess(_, _)
StrLess(a, b) ==
    IF a = <<>> THEN b # <<>>
    ELSE IF b = <<>> THEN FALSE
    ELSE IF a[1] # b[1] THEN a[1] < b[1]
    ELSE StrLess(Tail(a), Tail(b))

\* list.sort(): ascending, by insertion
RECURSIVE Insert(_, _)
Insert(x, s) ==
    IF s = <<>> THEN <<x>>
    ELSE IF StrLess(s[1], x) THEN <<s[1]>> \o Insert(x, Tail(s))
    ELSE <<x>> \o s
\* (variant: the list left in walk order)
SortPaths_none(s) == s
RECURSIVE SortPaths(_)
SortPaths(s) == IF s = <<>> THEN <<>> ELSE Insert(s[1], SortPaths(Tail(s)))

\* ------------------------------------------------------------ pure builders
\* lines 48-51: one entry record
\* (variant: path_len without the terminator)
EntryBytes_nolen(path_bytes, file_data) ==
    file_data \o LE(Len(file_data), 8) \o path_bytes \o <<NUL>> \o LE(Len(path_bytes), 2)
EntryBytes(path_bytes, file_data) ==
    file_data \o LE(Len(file_data), 8) \o path_bytes \o <<NUL>> \o LE(Len(path_bytes) + 1, 2)

\* lines 55-63: entries, then file_count, title, version, magic
\* (variant: title before file_count)
AssembleTrailer_swapped(entries, count, title) ==
    entries \o title \o LE(count, 4) \o LE(VERSION, 2) \o MAGIC
AssembleTrailer(entries, count, title) ==
    entries \o LE(count, 4) \o title \o LE(VERSION, 2) \o MAGIC

\* line 22: the identifier is accepted
\* (variant: only longer identifiers refused)
TitleIdOk_atmost(t) == Len(t) <= TitleIdLen
TitleIdOk(t) == Len(t) = TitleIdLen

\* os.rename on the file map: the record moves from src to dst
\* (variant: a copy, the source kept)
RenameFs_copy(f, src, dst) == [f EXCEPT ![dst] = f[src]]
RenameFs(f, src, dst) == IF src = dst THEN f ELSE [f EXCEPT ![dst] = f[src], ![src] = Absent]

\* open(..., "ab") then write: the bytes go after the file's content; a missing
\* file is created
AppendFs(f, k, bytes) ==
    [f EXCEPT ![k] = IF f[k].exists THEN [f[k] EXCEPT !.data = f[k].data \o bytes]
                     ELSE File(bytes, TRUE, TRUE)]

\* ------------------------------------------------------------------- os.walk
TopKey == Split(SCE_SYS_PATH, platform)
\* the regular files below the walked directory
WalkFiles == LET top == TopKey
             IN {k \in DOMAIN fs : fs[k].exists /\ IsPrefix(top, k) /\ Len(k) > Len(top)}
\* the root os.walk reports for the directory made of the first n components of k
RECURSIVE RootStr(_, _)
RootStr(k, n) ==
    IF n <= Len(TopKey) THEN SCE_SYS_PATH ELSE Join(RootStr(k, n - 1), k[n], platform)
\* top-down: of the files left, one whose directory has no file left in a
\* directory above it
WalkNext(k, left) ==
    /\ k \in left
    /\ \A k2 \in left :
          ~(IsPrefix(ParentDir(k2), ParentDir(k)) /\ ParentDir(k2) # ParentDir(k))
\* lines 28-29
FullPath(k) == Replace(Join(RootStr(k, Len(k) - 1), k[Len(k)], platform))

\* -------------------------------------------------------------------- inputs
TitleChoices == {S_PPSA10240, S_PPSA1024, S_PPSA102400, S_PPSA1024e}
InputChoices == {S_snake_img, S_sce_sys_a_txt}
ArgvChoices ==
    {<<S_script, t, S_sce_sys, i, o>> :
        t \in TitleChoices, i \in InputChoices, o \in {S_snake_ffpkg, S_nodir_out}}
    \cup {<<S_script, t, S_sce_sys, i, i>> : t \in TitleChoices, i \in InputChoices}
    \cup {<<S_script, S_PPSA10240, S_sce_sys, S_snake_img>>}
ImageChoices == {Absent, File(IMG, TRUE, TRUE), File(IMG, TRUE, FALSE)}
OutChoices == {Absent, File(OLD, TRUE, TRUE)}
AuxSets == {S \in SUBSET AuxKeys : Cardinality(S) <= MaxFiles}

\* The state when the script starts: a platform, an argument vector, and a file
\* system with up to MaxFiles files under sce_sys (b possibly unreadable), the
\* image at snake.img present, read-only or missing when the arguments name it,
\* and possibly a file already at snake.ffpkg.
Init ==
    /\ platform \in {"posix", "nt"}
    /\ argv \in ArgvChoices
    /\ \E S \in AuxSets : \E c \in [S -> Contents] : \E u \in SUBSET (S \cap {K_b}) :
       \E img \in (IF argv[4] = S_snake_img THEN ImageChoices ELSE {Absent}) :
       \E out \in OutChoices :
          fs = [k \in AllKeys |->
                  IF k = K_img THEN img
                  ELSE IF k = K_out THEN out
                  ELSE IF k \in S THEN File(c[k], k \notin u, TRUE)
                  ELSE Absent]
    /\ fs0 = fs
    /\ pc = "args"
    /\ err = ""
    /\ TITLE_ID = <<>> /\ SCE_SYS_PATH = <<>> /\ INPUT_FILE = <<>> /\ OUTPUT_FILE = <<>>
    /\ walked = {}
    /\ sce_sys_files = <<>>
    /\ file_count = 0
    /\ idx = 0
    /\ sce_entries = <<>>
    /\ trailer = <<>>
    /\ ioLog = <<>>

\* ------------------------------------------------------------------- actions
Raise(e) == pc' = "error" /\ err' = e

\* lines 9-20
ParseArgs ==
    /\ pc = "args"
    /\ IF Len(argv) = ArgCount
       THEN /\ TITLE_ID' = argv[2] /\ SCE_SYS_PATH' = argv[3]
            /\ INPUT_FILE' = argv[4] /\ OUTPUT_FILE' = argv[5]
            /\ pc' = "check"
       ELSE /\ pc' = "exit1"
            /\ UNCHANGED <<TITLE_ID, SCE_SYS_PATH, INPUT_FILE, OUTPUT_FILE>>
    /\ UNCHANGED <<platform, argv, fs, fs0, err, walked, sce_sys_files, file_count,
                   idx, sce_entries, trailer, ioLog>>

\* lines 22-26: the length check, then the walk starts
CheckTitleId ==
    /\ pc = "check"
    /\ IF TitleIdOk(TITLE_ID)
       THEN /\ pc' = "walk" /\ err' = err
            /\ sce_sys_files' = <<>>
            /\ ioLog' = Append(ioLog, <<"walk", TopKey>>)
       ELSE /\ Raise("ValueError")
            /\ UNCHANGED <<sce_sys_files, ioLog>>
    /\ UNCHANGED <<platform, argv, fs, fs0, TITLE_ID, SCE_SYS_PATH, INPUT_FILE,
                   OUTPUT_FILE, walked, file_count, idx, sce_entries, trailer>>

\* lines 26-30: one file yielded by os.walk
WalkStep ==
    /\ pc = "walk"
    /\ LET left == WalkFiles \ walked
       IN \E k \in left :
             /\ WalkNext(k, left)
             /\ walked' = walked \cup {k}
             /\ sce_sys_files' = Append(sce_sys_files, FullPath(k))
    /\ UNCHANGED <<platform, argv, fs, fs0, pc, err, TITLE_ID, SCE_SYS_PATH, INPUT_FILE,
                   OUTPUT_FILE, file_count, idx, sce_entries, trailer, ioLog>>

\* lines 32-36: the walk is over
SortFiles ==
    /\ pc = "walk"
    /\ WalkFiles \ walked = {}
    /\ sce_sys_files' = SortPaths(sce_sys_files)
    /\ file_count' = Len(sce_sys_files)
    /\ sce_entries' = <<>>
    /\ idx' = 1
    /\ pc' = "encode"
    /\ UNCHANGED <<platform, argv, fs, fs0, err, TITLE_ID, SCE_SYS_PATH, INPUT_FILE,
                   OUTPUT_FILE, walked, trailer, ioLog>>

\* lines 37-53: one iteration of the encode loop
EncodeEntry ==
    /\ pc = "encode"
    /\ idx <= Len(sce_sys_files)
    /\ LET full_path == sce_sys_files[idx]
           key == Split(full_path, platform)
           fh == Lookup(fs, key)
           path_bytes == AsciiEncode(full_path)
           path_len == Len(path_bytes) + 1
       IN IF ~IsAscii(full_path)
          THEN Raise("UnicodeEncodeError") /\ UNCHANGED <<idx, sce_entries, ioLog>>
          ELSE /\ ioLog' = Append(ioLog, <<"read", key>>)
               /\ IF ~fh.exists
                  THEN Raise("FileNotFoundError") /\ UNCHANGED <<idx, sce_entries>>
                  ELSE IF ~fh.readable
                  THEN Raise("PermissionError") /\ UNCHANGED <<idx, sce_entries>>
                  ELSE IF ~(Fits(Len(fh.data), 8) /\ Fits(path_len, 2))
                  THEN Raise("struct.error") /\ UNCHANGED <<idx, sce_entries>>
                  ELSE /\ sce_entries' = sce_entries \o EntryBytes(path_bytes, fh.data)
                       /\ idx' = idx + 1
                       /\ UNCHANGED <<pc, err>>
    /\ UNCHANGED <<platform, argv, fs, fs0, TITLE_ID, SCE_SYS_PATH, INPUT_FILE,
                   OUTPUT_FILE, walked, sce_sys_files, file_count, trailer>>

\* lines 55-63: the footer and the trailer
BuildTrailer ==
    /\ pc = "encode"
    /\ idx > Len(sce_sys_files)
    /\ IF ~IsAscii(TITLE_ID)
       THEN Raise("UnicodeEncodeError") /\ UNCHANGED trailer
       ELSE IF ~Fits(file_count, 4)
       THEN Raise("struct.error") /\ UNCHANGED trailer
       ELSE /\ trailer' = AssembleTrailer(sce_entries, file_count, AsciiEncode(TITLE_ID))
            /\ pc' = "append" /\ err' = err
    /\ UNCHANGED <<platform, argv, fs, fs0, TITLE_ID, SCE_SYS_PATH, INPUT_FILE,
                   OUTPUT_FILE, walked, sce_sys_files, file_count, idx, sce_entries, ioLog>>

\* lines 65-66: open(INPUT_FILE, "ab") and write
AppendTrailer ==
    /\ pc = "append"
    /\ LET key == Split(INPUT_FILE, platform)
           f == Lookup(fs, key)
       IN /\ ioLog' = Append(ioLog, <<"append", key>>)
          /\ IF ParentDir(key) \notin Dirs \/ key \notin DOMAIN fs
             THEN Raise("FileNotFoundError") /\ UNCHANGED fs
             ELSE IF f.exists /\ ~f.writable
             THEN Raise("PermissionError") /\ UNCHANGED fs
             ELSE /\ fs' = AppendFs(fs, key, trailer)
                  /\ pc' = "rename" /\ err' = err
    /\ UNCHANGED <<platform, argv, fs0, TITLE_ID, SCE_SYS_PATH, INPUT_FILE, OUTPUT_FILE,
                   walked, sce_sys_files, file_count, idx, sce_entries, trailer>>

\* line 68: os.rename(INPUT_FILE, OUTPUT_FILE)
RenameOutput ==
    /\ pc = "rename"
    /\ LET src == Split(INPUT_FILE, platform)
           dst == Split(OUTPUT_FILE, platform)
       IN /\ ioLog' = Append(ioLog, <<"rename", src, dst>>)
          /\ IF ParentDir(dst) \notin Dirs \/ dst \notin DOMAIN fs
             THEN Raise("FileNotFoundError") /\ UNCHANGED fs
             ELSE IF platform = "nt" /\ dst # src /\ fs[dst].exists
             THEN Raise("FileExistsError") /\ UNCHANGED fs
             ELSE /\ fs' = RenameFs(fs, src, dst)
                  /\ pc' = "done" /\ err' = err
    /\ UNCHANGED <<platform, argv, fs0, TITLE_ID, SCE_SYS_PATH, INPUT_FILE, OUTPUT_FILE,
                   walked, sce_sys_files, file_count, idx, sce_entries, trailer>>

Next ==
    \/ ParseArgs
    \/ CheckTitleId
    \/ WalkStep
    \/ SortFiles
    \/ EncodeEntry
    \/ BuildTrailer
    \/ AppendTrailer
    \/ RenameOutput

Spec == Init /\ [][Next]_vars

\* lines 36-51 as a function of the sorted list: every entry, in order
RECURSIVE EncodeAll(_, _, _)
EncodeAll(files, f, plat) ==
    IF files = <<>> THEN <<>>
    ELSE EntryBytes(AsciiEncode(files[1]), Lookup(f, Split(files[1], plat)).data)
            \o EncodeAll(Tail(files), f, plat)

\* ------------------------------------------------ the reader of section 4.4
\* a little-endian field; a value of more than three bytes is past any file
\* the model holds
OutOfFile == Pow(2, 30)
FromLE(b) ==
    IF \E i \in 4..Len(b) : b[i] # 0 THEN OutOfFile
    ELSE LET d(i) == IF i <= Len(b) THEN b[i] ELSE 0
         IN d(1) + 256 * d(2) + 65536 * d(3)

Corrupt == [ok |-> FALSE, cursor |-> 0, entries |-> <<>>]
\* step 5: n entries read backward from cursor, returned in file order
RECURSIVE DecodeEntries(_, _, _, _)
DecodeEntries(bytes, cursor, n, acc) ==
    IF n = 0 THEN [ok |-> TRUE, cursor |-> cursor, entries |-> acc]
    ELSE IF cursor < 2 THEN Corrupt
    ELSE LET path_len == FromLE(SubSeq(bytes, cursor - 1, cursor))
             c1 == cursor - 2
         IN IF path_len < 1 \/ path_len > c1 THEN Corrupt
            ELSE LET path == SubSeq(bytes, c1 - path_len + 1, c1 - 1)
                     c2 == c1 - path_len
                 IN IF c2 < 8 \/ bytes[c1] # NUL THEN Corrupt
                    ELSE LET file_size == FromLE(SubSeq(bytes, c2 - 7, c2))
                             c3 == c2 - 8
                         IN IF file_size > c3 THEN Corrupt
                            ELSE DecodeEntries(bytes, c3 - file_size, n - 1,
                                    <<<<path, SubSeq(bytes, c3 - file_size + 1, c3)>>>> \o acc)

BadFile == [ok |-> FALSE, image |-> <<>>, entries |-> <<>>, title_id |-> <<>>,
            version |-> 0, cursor |-> 0]
\* steps 1-6
Decode(bytes) ==
    LET n == Len(bytes)
    IN IF n < 20 \/ SubSeq(bytes, n - 4, n) # MAGIC THEN BadFile
       ELSE IF FromLE(SubSeq(bytes, n - 6, n - 5)) # VERSION THEN BadFile
       ELSE LET r == DecodeEntries(bytes, n - 20, FromLE(SubSeq(bytes, n - 19, n - 16)), <<>>)
            IN IF ~r.ok THEN BadFile
               ELSE [ok |-> TRUE, image |-> SubSeq(bytes, 1, r.cursor), entries |-> r.entries,
                     title_id |-> SubSeq(bytes, n - 15, n - 7), version |-> VERSION,
                     cursor |-> r.cursor]

\* ------------------------------------------------------- what the claims name
InKey == Split(INPUT_FILE, platform)
OutKey == Split(OUTPUT_FILE, platform)
\* the image bytes the run found (none when there was no file)
Image0 == Lookup(fs0, InKey).data
\* the (path, content) pairs of the run, in the order the script iterates them
Entries ==
    [i \in 1..Len(sce_sys_files) |->
        <<sce_sys_files[i], Lookup(fs0, Split(sce_sys_files[i], platform)).data>>]
Built == pc \in {"append", "rename", "done"}
Logged(op) == \E i \in 1..Len(ioLog) : ioLog[i][1] = op
\* every enumeration of a set of paths as a list
Orders(S) == {w \in [1..Cardinality(S) -> S] : \A i, j \in 1..Cardinality(S) : w[i] = w[j] => i = j}
Range(q) == {q[i] : i \in 1..Len(q)}
\* a string with a character outside ASCII
HasNonAscii(q) == \E i \in 1..Len(q) : q[i] > 127

\* the layout as sections 3 and 4 write it, for lengths below 2^24
SpecLE(n, w) == [i \in 1..w |-> IF i = 1 THEN n % 256
                                ELSE IF i = 2 THEN (n \div 256) % 256
                                ELSE IF i = 3 THEN (n \div 65536) % 256 ELSE 0]
SpecEntry(e) == e[2] \o SpecLE(Len(e[2]), 8) \o e[1] \o <<0>> \o SpecLE(Len(e[1]) + 1, 2)
RECURSIVE SpecEntries(_)
SpecEntries(es) == IF es = <<>> THEN <<>> ELSE SpecEntry(es[1]) \o SpecEntries(Tail(es))
RECURSIVE SpecEntriesLen(_)
SpecEntriesLen(es) ==
    IF es = <<>> THEN 0
    ELSE Len(es[1][2]) + 8 + Len(es[1][1]) + 1 + 2 + SpecEntriesLen(Tail(es))
SpecFooter(count, id) == SpecLE(count, 4) \o id \o SpecLE(1, 2) \o <<102, 102, 112, 107, 103>>

\* C1: the backward-from-EOF reader applied to image ++ trailer returns the image,
\* the entries in order, the identifier and version 1, its cursor ending at
\* len(image); the file a successful run leaves at the output path reads the same.
C1_RoundTrip ==
    LET want == [ok |-> TRUE, image |-> Image0, entries |-> Entries,
                 title_id |-> TITLE_ID, version |-> 1, cursor |-> Len(Image0)]
    IN /\ Built => Decode(Image0 \o trailer) = want
       /\ pc = "done" => Decode(fs[OutKey].data) = want
C1_Witness ==
    /\ pc = "done" /\ file_count = 2 /\ Image0 # <<>>
    /\ \E i, j \in 1..2 : Entries[i][2] = <<>> /\ Entries[j][2] # <<>>

\* C2: the trailer is the entries in order, each content ++ LE64(len) ++ path ++
\* 0x00 ++ LE16(len(path)+1), then LE32(count) ++ title id ++ LE16(version) ++
\* "ffpkg"; its length is 20 + the entries' lengths; with no entry it is the
\* 20-byte footer with file_count = 0.
C2_TrailerLayout ==
    Built =>
       /\ trailer = SpecEntries(Entries) \o SpecFooter(Len(Entries), TITLE_ID)
       /\ Len(trailer) = 20 + SpecEntriesLen(Entries)
       /\ Len(TITLE_ID) = 9
       /\ Entries = <<>> => /\ Len(trailer) = 20
                            /\ trailer = <<0, 0, 0, 0>> \o TITLE_ID \o <<1, 0>> \o MAGIC
C2_Witness ==
    /\ pc = "append" /\ file_count = 2
    /\ \A i \in 1..2 : Entries[i][2] # <<>>

\* C3 (as claimed): a successful run leaves image ++ trailer at the output path,
\* and building the trailer never reads or changes a byte of the image.
C3_NonDestructiveAppend ==
    /\ pc = "done" => /\ fs[OutKey].data = Image0 \o trailer
                      /\ Len(fs[OutKey].data) = Len(Image0) + Len(trailer)
    /\ pc \in {"walk", "encode", "append"} => fs = fs0
    /\ pc \notin {"args", "exit1"} =>
          \A i \in 1..Len(ioLog) : ioLog[i] # <<"read", InKey>>

\* C4 (as claimed): when the write step finds no image file, or one that is not
\* writable, the run ends with an I/O error and no file is created or changed.
C4_MissingImageIsIoError ==
    (Logged("append") /\ ~(fs0[InKey].exists /\ fs0[InKey].writable)) =>
        /\ pc = "error"
        /\ err \in {"FileNotFoundError", "PermissionError"}
        /\ fs = fs0

\* C5: an identifier of a length other than 9 is rejected with an error before
\* any file-system call; the files stay as found, nothing is collected or
\* built, and the identifier is the argument as given.
C5_TitleIdLength ==
    (Len(argv) = ArgCount /\ Len(argv[2]) # 9) =>
        /\ pc \in {"args", "check", "error"}
        /\ pc # "args" => TITLE_ID = argv[2]
        /\ pc = "error" => err = "ValueError"
        /\ ioLog = <<>> /\ fs = fs0
        /\ walked = {} /\ sce_sys_files = <<>> /\ sce_entries = <<>> /\ trailer = <<>>
C5_Witness == pc = "error" /\ err = "ValueError" /\ Len(TITLE_ID) = 8 /\ ioLog = <<>>

\* C6: whatever order the walk returned the files in, the list encoded is the
\* one sorted list of the collected paths, and the trailer is the trailer of
\* that list: every other walk order of the same files gives the same bytes.
C6_Deterministic ==
    pc \in {"encode", "append", "rename", "done"} =>
        \A w \in Orders(Range(sce_sys_files)) :
            /\ SortPaths(w) = sce_sys_files
            /\ Built => trailer = AssembleTrailer(EncodeAll(SortPaths(w), fs0, platform),
                                                  Len(w), AsciiEncode(TITLE_ID))
\* the walk yields sce_sys/a.txt before sce_sys/_d/c, which sorts first
C6_Witness ==
    /\ pc = "done" /\ walked = {K_a, K_c}
    /\ sce_sys_files = <<FullPath(K_c), FullPath(K_a)>>

\* C7: a collected path with a non-ASCII character ends the run in an error
\* before any trailer exists or is appended; the path of every entry encoded
\* is the collected path, code point for byte.
C7_NonAsciiPathRejected ==
    /\ (\E i \in 1..Len(sce_sys_files) : HasNonAscii(sce_sys_files[i])) =>
          /\ pc \in {"walk", "encode", "error"}
          /\ trailer = <<>> /\ fs = fs0 /\ ~Logged("append")
    /\ (pc \in {"encode", "append", "rename", "done", "error"} /\ idx >= 1) =>
          sce_entries = SpecEntries(SubSeq(Entries, 1, idx - 1))
C7_Witness ==
    /\ pc = "error" /\ err = "UnicodeEncodeError"
    /\ idx = 2 /\ Len(sce_sys_files) = 2
    /\ HasNonAscii(sce_sys_files[idx])

\* the run of section 8's scenario: "PPSA10240", the directory holds only a.txt = "hi"
Scenario ==
    /\ Built
    /\ TITLE_ID = S_PPSA10240
    /\ {k \in AuxKeys : fs0[k].exists} = {K_a}
    /\ fs0[K_a].data = <<104, 105>>
\* the path of file k as SCE_SYS_PATH, then "/" and each component below it
RECURSIVE SlashJoined(_, _)
SlashJoined(k, n) == IF n > Len(k) THEN <<>> ELSE <<47>> \o k[n] \o SlashJoined(k, n + 1)
PrefixedPath(k) == SCE_SYS_PATH \o SlashJoined(k, Len(TopKey) + 1)

\* C8 (as claimed): the path field is a.txt, so the scenario's trailer is
\* "hi" LE64(2) "a.txt" 00 LE16(6) LE32(1) "PPSA10240" LE16(1) "ffpkg".
C8_ScenarioAsClaimed ==
    Scenario =>
        trailer = <<104, 105>> \o <<2, 0, 0, 0, 0, 0, 0, 0>> \o S_a_txt \o <<0>> \o <<6, 0>>
                    \o <<1, 0, 0, 0>> \o S_PPSA10240 \o <<1, 0>> \o MAGIC
\* C8 (amended): the path field is the SCE_SYS_PATH argument, "/", and the
\* file's path below it; the scenario's trailer carries "sce_sys/a.txt" with
\* LE16(14), and reads back as sce_sys/a.txt -> "hi".
C8_PathIsPrefixed ==
    /\ Range(sce_sys_files) = {PrefixedPath(k) : k \in walked}
    /\ Scenario =>
          /\ trailer = <<104, 105>> \o <<2, 0, 0, 0, 0, 0, 0, 0>> \o S_sce_sys_a_txt \o <<0>>
                         \o <<14, 0>> \o <<1, 0, 0, 0>> \o S_PPSA10240 \o <<1, 0>> \o MAGIC
          /\ Decode(trailer).entries = <<<<S_sce_sys_a_txt, <<104, 105>>>>>>
C8_Witness == Scenario /\ pc = "done" /\ platform = "nt" /\ InKey = K_img

\* C9 (as claimed): after a successful run only the output file differs; the
\* input image path still holds its original content.
C9_OnlyOutputDiffers ==
    pc = "done" =>
        /\ fs[OutKey].data = Image0 \o trailer
        /\ \A k \in AllKeys \ {OutKey} : fs[k] = fs0[k]
\* C9 (amended): after a successful run the output path holds the image bytes
\* found at the input path followed by the trailer, the input path no longer
\* exists when it differs from the output path, and every other file is as before.
C9_RenamedNotCopied ==
    pc = "done" =>
        /\ fs[OutKey].exists /\ fs[OutKey].data = Image0 \o trailer
        /\ InKey # OutKey => ~fs[InKey].exists
        /\ \A k \in AllKeys \ {InKey, OutKey} : fs[k] = fs0[k]
C9_Witness ==
    /\ pc = "done" /\ InKey # OutKey /\ fs0[InKey].exists /\ fs0[OutKey].exists
    /\ \E k \in AuxKeys \ {InKey} : fs0[k].exists

\* C10 (as claimed): every fallible step precedes the first change of the file
\* system, so a run that ends in an error leaves every file as found.
C10_AllOrNothing ==
    /\ pc \in {"error", "exit1"} => fs = fs0
    /\ fs # fs0 => Logged("append")

====
